---- MODULE Spec2Model ----
(***************************************************************************)
(* Model of the vector analytics core of src/libs/math.js: kMeans (Lloyd's *)
(* k-means with first-k seeding and two-decimal centroid rounding),        *)
(* kNearestNeighbors (distance sort, slice, label tally), vectorDistance,  *)
(* vectorAngle and standardDeviation.                                      *)
(*                                                                         *)
(* Numbers.  A JavaScript number is modelled as an integer count of        *)
(* thousandths (1.0 is 1000, 0.004 is 4); NaN is the value NaN below.      *)
(* Math.hypot is modelled by the sum of the squared differences, which     *)
(* orders and equates distances exactly as the square root does.  On the   *)
(* coordinates used here no mean falls on a rounding tie of toFixed(2)     *)
(* and no two different exact distances are closer than double precision   *)
(* resolves, so the exact arithmetic gives the results the doubles give.   *)
(*                                                                         *)
(* vectorDistance returns IEEE 754 doubles, modelled bit for bit on small   *)
(* integer coordinates (see "doubles" below); vectorAngle and              *)
(* standardDeviation are modelled in exact arithmetic, their results kept  *)
(* as the exact quantity under the final Math.acos or Math.sqrt.           *)
(*                                                                         *)
(* Indices.  Sequences are 1-based: data[d] of the source is data[d + 1]   *)
(* here.  Cluster indices (the entries of classes) keep the source's       *)
(* values: 0 .. k-1, and -1 for "no index".                                *)
(***************************************************************************)
EXTENDS Integers, Sequences, FiniteSets, TLC

\* ------------------------------------------------------------ bounds
\* Longest dataset handed to kMeans.
MaxN == 4
\* Longest training set handed to kNearestNeighbors.
MaxTrain == 4
\* Longest vector handed to vectorDistance and vectorAngle.
MaxDim == 2
\* Longest array handed to standardDeviation.
MaxArr == 3

\* ------------------------------------------------------------ numbers
\* NaN: the result of 0 / 0, of undefined - x and of x + undefined.
NaN == -1000000

IsNaN(x) == x = NaN

\* Thousandths in one step of toFixed(2), i.e. 0.01.
Grid == 10

\* v[key] of the source with key a 0-based index: out of range reads
\* undefined, which arithmetic turns into NaN.
At(v, i) == IF i \in DOMAIN v THEN v[i] ELSE NaN

\* a - b on numbers.
Sub(a, b) == IF IsNaN(a) \/ IsNaN(b) THEN NaN ELSE a - b

\* a + b on numbers.
Add(a, b) == IF IsNaN(a) \/ IsNaN(b) THEN NaN ELSE a + b

RECURSIVE SumSq(_, _)
\* The sum of the squares of diffs[1 .. n]; NaN if any entry is NaN.
SumSq(diffs, n) ==
    IF n = 0 THEN 0
    ELSE LET rest == SumSq(diffs, n - 1)
         IN  IF IsNaN(rest) \/ IsNaN(diffs[n]) THEN NaN
             ELSE rest + diffs[n] * diffs[n]

\* Math.hypot(...diffs), squared.
Hypot2(diffs) == SumSq(diffs, Len(diffs))

\* parseFloat(Number(sum / size).toFixed(2)): sum / size to the nearest
\* hundredth, halves away from zero; 0 / 0 and NaN / size are NaN.
RoundedMean(sum, size) ==
    IF IsNaN(sum) \/ size = 0 THEN NaN
    ELSE IF sum >= 0
         THEN Grid * ((2 * sum + Grid * size) \div (2 * Grid * size))
         ELSE 0 - Grid * ((2 * (0 - sum) + Grid * size) \div (2 * Grid * size))

\* ------------------------------------------------------------ inputs
\* The vectors datasets are built from: the four points of the documented
\* example, a point 0.004 away from the first, and a one-component vector
\* (a dataset holding it next to the others has unequal lengths).
Points ==
    { <<0, 0>>, <<0, 1000>>, <<1000, 3000>>, <<2000, 0>>, <<0, 4>>, <<1000>> }

\* All sequences over S of length lo .. hi.
SeqsOf(S, lo, hi) == UNION { [1..n -> S] : n \in lo..hi }

\* ------------------------------------------------------------ state
\* kMeans: its arguments (data, k), its locals (centroids, classes, itr),
\* where the call stands (pc) and how many assignment steps it has run
\* (iters).  kNearestNeighbors: its arguments (train, labels, point, kn),
\* where the call stands (kpc) and the label it returned (topClass).
\* vdist: the vectors a, b, c handed to vectorDistance and the four results
\* ab, ba, bc, ac.  vangle: a call of vectorAngle.  stdev: a call of
\* standardDeviation.  Each is a record with the field pc for where the
\* call stands.
VARIABLES data, k, centroids, classes, itr, pc, iters,
          train, labels, point, kn, kpc, topClass,
          vdist, vangle, stdev

kmVars == <<data, k, centroids, classes, itr, pc, iters>>
knnVars == <<train, labels, point, kn, kpc, topClass>>
mathVars == <<vdist, vangle, stdev>>
vars == <<data, k, centroids, classes, itr, pc, iters,
          train, labels, point, kn, kpc, topClass,
          vdist, vangle, stdev>>

\* ------------------------------------------------------------ kMeans
\* s.slice(-n): the last n entries.
SliceEnd(s, n) ==
    LET b == IF n <= 0 THEN Len(s) ELSE IF n < Len(s) THEN Len(s) - n ELSE 0
    IN  SubSeq(s, b + 1, Len(s))

\* s.slice(0, n): the first n entries, for n < 0 all but the last -n.
Slice0(s, n) ==
    LET e == IF n >= 0
             THEN (IF n < Len(s) THEN n ELSE Len(s))
             ELSE (IF Len(s) + n > 0 THEN Len(s) + n ELSE 0)
    IN  SubSeq(s, 1, e)

\* Object.keys(v) of an array, as 1-based positions.
Keys(v) == 1..Len(v)

\* The squared Math.hypot of p - cent over the keys of data[0].
CentroidDist2(p, cent, keyOf) ==
    Hypot2([key \in Keys(keyOf) |-> Sub(At(p, key), At(cent, key))])

\* distances[d] after the inner loop: one distance per centroid 0 .. kk-1.
DistRow(p, cents, kk, keyOf) ==
    [c \in 1..kk |-> CentroidDist2(p, cents[c], keyOf)]

\* The least entry of a non-empty row without NaN.
MinOf(row) == CHOOSE x \in { row[j] : j \in DOMAIN row } :
                  \A j \in DOMAIN row : x <= row[j]

\* row.indexOf(Math.min(...row)): -1 for an empty row (Math.min() is
\* Infinity) and for a row holding NaN (the minimum is NaN, which indexOf
\* never finds); otherwise the first position of the least entry, 0-based.
IndexOfMin(row) ==
    IF DOMAIN row = {} \/ (\E j \in DOMAIN row : IsNaN(row[j])) THEN -1
    ELSE (CHOOSE j \in DOMAIN row :
              /\ row[j] = MinOf(row)
              /\ \A h \in DOMAIN row : h < j => row[h] # MinOf(row)) - 1

\* The classes the assignment step writes: for every point the index of
\* its nearest centroid.
AssignAll(dat, cents, kk) ==
    [d \in 1..Len(dat) |-> IndexOfMin(DistRow(dat[d], cents, kk, dat[1]))]

\* centroids[c] is undefined for some c < k reached by the first point:
\* reading centroids[c][key] throws a TypeError.
AssignThrows(dat, cents, kk) ==
    Len(dat) > 0 /\ kk > Len(cents) /\ Len(dat[1]) > 0

\* Changed with the flag overwritten per point instead of accumulated
\* (itr = classes[d] !== m): only the last point's change is kept.
ChangedLastOnly(old, new) ==
    Len(new) > 0 /\ old[Len(new)] # new[Len(new)]

\* Changed with the test made on the first point only.
ChangedFirstOnly(old, new) == Len(new) > 0 /\ old[1] # new[1]

\* The convergence test: itr is set when some point's class changed.
Changed(old, new) == \E d \in DOMAIN new : old[d] # new[d]

RECURSIVE SumMembers(_, _, _, _, _)
\* centroids[c][i] after the reduce over data[0 .. n-1]: the sum of
\* data[d][i] over the points d of class c.
SumMembers(dat, cls, c, i, n) ==
    IF n = 0 THEN 0
    ELSE IF cls[n] = c
         THEN Add(SumMembers(dat, cls, c, i, n - 1), At(dat[n], i))
         ELSE SumMembers(dat, cls, c, i, n - 1)

\* size counted over all points, of whatever class.
SizeOfAll(cls, c) == Len(cls)

\* size: the number of points of class c.
SizeOf(cls, c) == Cardinality({ d \in DOMAIN cls : cls[d] = c })

\* UpdateAll with no coordinates computed for a cluster without points.
UpdateNonEmpty(dat, cls, cents, kk) ==
    IF kk <= 0 THEN cents
    ELSE [c \in 1..kk |->
            IF SizeOf(cls, c - 1) = 0 THEN << >>
            ELSE [i \in Keys(dat[1]) |->
                    RoundedMean(SumMembers(dat, cls, c - 1, i, Len(dat)),
                                SizeOf(cls, c - 1))]]

\* The centroids the update step writes: for each c < k the rounded mean of
\* the points of class c, over the keys of data[0].
UpdateAll(dat, cls, cents, kk) ==
    IF kk <= 0 THEN cents
    ELSE [c \in 1..kk |->
            [i \in Keys(dat[1]) |->
                RoundedMean(SumMembers(dat, cls, c - 1, i, Len(dat)),
                            SizeOf(cls, c - 1))]]

\* data[0].length is read for some c < k while data is empty: TypeError.
UpdateThrows(dat, kk) == kk >= 1 /\ Len(dat) = 0

\* data after an update step without line 82: centroids[c] would still be
\* the array data[c] that slice copied by reference, and the sums and
\* means of lines 86 and 91 would be written into it.
DataWrittenThrough(dat, cls, cents, kk) ==
    [d \in DOMAIN dat |->
        IF d <= kk THEN UpdateAll(dat, cls, cents, kk)[d] ELSE dat[d]]

\* data after an update step.  Line 61 copies references, so centroids[c]
\* starts as the very array data[c]; line 82 puts a new array in
\* centroids[c] before lines 86 and 91 write to centroids[c][i], so no
\* vector of data is written.
DataAfterUpdate(dat, cls, cents, kk) == dat

\* The seedings a call can start from, all k-entry selections of data in
\* any order, as a random seeding would allow.
RandomSeeds(dat, kk) ==
    IF kk < 0 \/ kk > Len(dat) THEN { Slice0(dat, kk) }
    ELSE { [c \in 1..kk |-> dat[f[c]]] :
               f \in { g \in [1..kk -> DOMAIN dat] :
                           \A c, e \in 1..kk : c # e => g[c] # g[e] } }

\* Line 61: the seedings a call can start from.  There is one: the first
\* k vectors of data; nothing is drawn at random.
Seeds(dat, kk) == { Slice0(dat, kk) }

\* The state after lines 61-66 of a call kMeans(data, k).
InitKMeans ==
    /\ data \in SeqsOf(Points, 0, MaxN)
    /\ k \in (0 - 1)..(Len(data) + 1)
    /\ centroids \in Seeds(data, k)
    /\ classes = [d \in 1..Len(data) |-> -1]
    /\ itr = TRUE
    /\ pc = "while"
    /\ iters = 0

\* Lines 67-79: the loop is entered and every point is assigned.
AssignStep ==
    /\ pc = "while"
    /\ itr
    /\ iters' = iters + 1
    /\ IF AssignThrows(data, centroids, k)
       THEN /\ pc' = "TypeError"
            /\ itr' = FALSE
            /\ UNCHANGED classes
       ELSE /\ classes' = AssignAll(data, centroids, k)
            /\ itr' = Changed(classes, classes')
            /\ pc' = "update"
    /\ UNCHANGED <<data, k, centroids>>

\* Lines 81-93: every centroid is recomputed.
UpdateStep ==
    /\ pc = "update"
    /\ IF UpdateThrows(data, k)
       THEN /\ pc' = "TypeError"
            /\ UNCHANGED centroids
       ELSE /\ centroids' = UpdateAll(data, classes, centroids, k)
            /\ pc' = "while"
    /\ data' = IF UpdateThrows(data, k) THEN data
               ELSE DataAfterUpdate(data, classes, centroids, k)
    /\ UNCHANGED <<k, classes, itr, iters>>

\* Lines 67 and 96: the loop condition fails and classes is returned.
Return ==
    /\ pc = "while"
    /\ ~itr
    /\ pc' = "returned"
    /\ UNCHANGED <<data, k, centroids, classes, itr, iters>>

\* ------------------------------------------------- kNearestNeighbors
\* A label is modelled by its kind (typeof) and its property key
\* (String(label)): the number 1 is [kind |-> "number", key |-> "1"], the
\* string "1" is [kind |-> "string", key |-> "1"].
Label(kind, key) == [kind |-> kind, key |-> key]

\* The value of topClass while nothing has been returned.
NoLabel == Label("undefined", "undefined")

\* The training vectors and query points of the model: the query <<1000, 0>>
\* is equally far from <<0, 0>> and <<2000, 0>>.  All have two components,
\* so no dist is NaN and the comparator a.dist - b.dist is a total order.
TrainPoints == { <<0, 0>>, <<0, 1000>>, <<2000, 0>> }

QueryPoints == { <<1000, 0>>, <<1000, 2000>> }

\* Label sequences of length n: all numbers or all strings.
LabelSeqs(n) ==
    UNION { [1..n -> { Label(kind, key) : key \in {"0", "1"} }] :
                kind \in {"number", "string"} }

\* Line 119: the squared Math.hypot of point - el over the keys of el.
PointDist2(pt, el) ==
    Hypot2([key \in Keys(el) |-> Sub(At(pt, key), At(el, key))])

RECURSIVE EntriesUpTo(_, _, _, _)
\* Lines 118-121: the {dist, label} entries of the first n training vectors.
EntriesUpTo(trn, lbs, pt, n) ==
    IF n = 0 THEN << >>
    ELSE Append(EntriesUpTo(trn, lbs, pt, n - 1),
                [dist |-> PointDist2(pt, trn[n]), label |-> lbs[n]])

\* Lines 118-121: one {dist, label} entry per training vector.
Entries(trn, lbs, pt) == EntriesUpTo(trn, lbs, pt, Len(trn))

\* InsertByDist with an unstable order: e goes in front of the entries of
\* equal dist.
InsertBeforeEqual(sorted, e) ==
    LET p == Cardinality({ j \in DOMAIN sorted : sorted[j].dist < e.dist })
    IN  SubSeq(sorted, 1, p) \o <<e>> \o SubSeq(sorted, p + 1, Len(sorted))

\* Entry e put into the sorted sequence: Array.prototype.sort is stable,
\* so e goes behind every entry whose dist is not greater.
InsertByDist(sorted, e) ==
    LET p == Cardinality({ j \in DOMAIN sorted : sorted[j].dist <= e.dist })
    IN  SubSeq(sorted, 1, p) \o <<e>> \o SubSeq(sorted, p + 1, Len(sorted))

RECURSIVE SortFromEnd(_, _)
\* SortUpTo with the entries taken from the last to the first: entries
\* of equal dist come out in reverse order.
SortFromEnd(es, n) ==
    IF n = 0 THEN << >>
    ELSE InsertByDist(SortFromEnd(es, n - 1), es[Len(es) - n + 1])

RECURSIVE SortUpTo(_, _)
\* The first n entries of es in ascending dist.
SortUpTo(es, n) ==
    IF n = 0 THEN << >> ELSE InsertByDist(SortUpTo(es, n - 1), es[n])

\* Line 122: .sort((a, b) => a.dist - b.dist).
SortByDist(es) == SortUpTo(es, Len(es))

\* Lines 117-124: the k entries nearest to the point.
KNearest(trn, lbs, pt, kk) == Slice0(SortByDist(Entries(trn, lbs, pt)), kk)

\* Line 128: Object.keys(acc.classCounts).indexOf(label) !== -1.  The keys
\* are strings and indexOf compares with ===, so a label that is not a
\* string is never found.
HasCount(counts, label) ==
    label.kind = "string" /\ label.key \in DOMAIN counts

\* Lines 127-130: the count written for label.
NewCount(counts, label) ==
    IF HasCount(counts, label) THEN counts[label.key] + 1 ELSE 1

\* Lines 126-135: one call of the reducer.
TallyStep(acc, label) ==
    LET n == NewCount(acc.classCounts, label)
        counts == [x \in DOMAIN acc.classCounts \cup {label.key} |->
                      IF x = label.key THEN n ELSE acc.classCounts[x]]
    IN  IF n > acc.topClassCount
        THEN [classCounts |-> counts, topClass |-> label, topClassCount |-> n]
        ELSE [classCounts |-> counts, topClass |-> acc.topClass,
              topClassCount |-> acc.topClassCount]

RECURSIVE Tally(_, _)
\* Lines 125-142: the reduce over kNearest[0 .. n-1], from the initial
\* accumulator of lines 137-141.
Tally(ks, n) ==
    IF n = 0
    THEN [classCounts |-> [x \in {} |-> 0], topClass |-> ks[1].label,
          topClassCount |-> 0]
    ELSE TallyStep(Tally(ks, n - 1), ks[n].label)

\* Line 139: kNearest[0].label with kNearest empty throws a TypeError.
ClassifyThrows(ks) == Len(ks) = 0

\* data with its vectors in ascending distance from the point, as
\* data.sort would leave it.
DataSortedInPlace(trn, lbs, pt) ==
    LET sorted == SortByDist(Entries(trn, trn, pt))
    IN  [i \in DOMAIN sorted |-> sorted[i].label]

\* Lines 117-122: data after the call.  data.map returns a new array and
\* .sort reorders that array; data and its vectors are only read.
DataAfter(trn, lbs, pt) == trn

\* Line 120: labels after the call; labels[i] is only read.
LabelsAfter(trn, lbs, pt) == lbs

\* The arguments of a call kNearestNeighbors(train, labels, point, kn).
InitKNN ==
    /\ train \in SeqsOf(TrainPoints, 0, MaxTrain)
    /\ labels \in LabelSeqs(Len(train))
    /\ point \in QueryPoints
    /\ kn \in (0 - 1)..(Len(train) + 1)
    /\ kpc = "call"
    /\ topClass = NoLabel

\* Lines 116-143: the whole call.
Classify ==
    /\ kpc = "call"
    /\ LET ks == KNearest(train, labels, point, kn)
       IN  IF ClassifyThrows(ks)
           THEN /\ kpc' = "TypeError"
                /\ UNCHANGED topClass
           ELSE /\ kpc' = "returned"
                /\ topClass' = Tally(ks, Len(ks)).topClass
    /\ train' = DataAfter(train, labels, point)
    /\ labels' = LabelsAfter(train, labels, point)
    /\ UNCHANGED <<point, kn>>

\* No kNearestNeighbors call is in progress.
KnnIdle ==
    /\ train = << >>
    /\ labels = << >>
    /\ point = << >>
    /\ kn = 0
    /\ kpc = "idle"
    /\ topClass = NoLabel

\* No kMeans call is in progress.
KMeansIdle ==
    /\ data = << >>
    /\ k = 0
    /\ centroids = << >>
    /\ classes = << >>
    /\ itr = FALSE
    /\ pc = "idle"
    /\ iters = 0

\* ------------------------------------------------------------ doubles
\* vectorDistance is modelled on vectors of small integers, where val -
\* vectorB[i], Math.pow(.., 2) and the running sum are exact, and the only
\* roundings are those of Math.sqrt and of an addition of two results.  A
\* double d >= 0 is the record [nan |-> FALSE, hi |-> h, lo |-> l] with
\* d = (h * Base + l) / 2^52 and 0 <= l < Base; NaN is DoubleNaN.
Base == 2^28

DoubleNaN == [nan |-> TRUE, hi |-> 0, lo |-> 0]

Double(h, l) == [nan |-> FALSE, hi |-> h, lo |-> l]

\* SqrtTable[x] is Math.sqrt(x) for x in 1 .. 48: the double nearest to the
\* square root, as <<hi, lo>>.  (SqrtTable[2] is 1.4142135623730951.)
SqrtTable ==
    << <<16777216, 0>>, <<23726566, 109001677>>, <<29058990, 140004522>>,
       <<33554432, 0>>, <<37514995, 120580432>>, <<41095618, 135414364>>,
       <<44388341, 61206996>>, <<47453132, 218003354>>, <<50331648, 0>>,
       <<53054215, 95729318>>, <<55643730, 133881448>>, <<58117981, 11573588>>,
       <<60491112, 146977766>>, <<62774594, 47218322>>, <<64977878, 43949492>>,
       <<67108864, 0>>, <<69174233, 180335644>>, <<71179699, 58569572>>,
       <<73130189, 26294244>>, <<75029990, 241160864>>, <<76882862, 72645140>>,
       <<78692118, 89217692>>, <<80460701, 98308184>>, <<82191237, 2393272>>,
       <<83886080, 0>>, <<85547351, 206094296>>, <<87176971, 151578112>>,
       <<88776682, 122413992>>, <<90348073, 44263372>>, <<91892596, 148543036>>,
       <<93411585, 94570252>>, <<94906265, 167571252>>, <<96377768, 93012928>>,
       <<97827139, 114200200>>, <<99255348, 105842868>>, <<100663296, 0>>,
       <<102051820, 227504356>>, <<103421705, 64756068>>, <<104773680, 90918440>>,
       <<106108430, 191458636>>, <<107426598, 109050880>>, <<108728786, 144198032>>,
       <<110015562, 141985152>>, <<111287460, 267762896>>, <<112544986, 93305840>>,
       <<113788615, 29573260>>, <<115018798, 14045080>>, <<116235962, 23147176>> >>

\* Math.sqrt left out: the sum of squares itself, as a double.
SqrtOmitted(x) == IF IsNaN(x) THEN DoubleNaN ELSE Double(x * 2^24, 0)

\* Math.sqrt(x) for x NaN or an integer in 0 .. 48.
MathSqrt(x) ==
    IF IsNaN(x) THEN DoubleNaN
    ELSE IF x = 0 THEN Double(0, 0)
    ELSE Double(SqrtTable[x][1], SqrtTable[x][2])

\* The unit in the last place of a double below 16 with high part h, in
\* units of 2^-52: 1 below 2, 2 below 4, 4 below 8, 8 below 16.
Ulp(h) ==
    IF h < 2^25 THEN 1 ELSE IF h < 2^26 THEN 2 ELSE IF h < 2^27 THEN 4 ELSE 8

\* x + n units in the last place of x, exactly.
PlusUlps(x, n) ==
    LET l == x.lo + n * Ulp(x.hi)
    IN  Double(x.hi + (l \div Base), l % Base)

\* x + y on doubles whose sum is below 16: the exact sum rounded to 53
\* significant bits, to nearest, ties to the even significand.
DoubleAdd(x, y) ==
    IF x.nan \/ y.nan THEN DoubleNaN
    ELSE LET l == x.lo + y.lo
             h == x.hi + y.hi + (l \div Base)
             low == l % Base
             u == Ulp(h)
             r == low % u
             up == 2 * r > u \/ (2 * r = u /\ (low \div u) % 2 = 1)
             down == Double(h, low - r)
         IN  IF up THEN PlusUlps(down, 1) ELSE down

\* x <= y on doubles: false when either is NaN.
DoubleLeq(x, y) ==
    /\ ~x.nan
    /\ ~y.nan
    /\ x.hi < y.hi \/ (x.hi = y.hi /\ x.lo <= y.lo)

\* x === 0 on doubles.
IsZero(x) == ~x.nan /\ x.hi = 0 /\ x.lo = 0

\* ------------------------------------------------------ vectorDistance
\* The coordinates of the vectors handed to vectorDistance and vectorAngle.
Coords == {0, 1, 4}

\* The vectors handed to vectorDistance and vectorAngle: every length from
\* 0 to MaxDim, so pairs of unequal length are among the arguments.
Vectors == SeqsOf(Coords, 0, MaxDim)

\* Line 28: the reduce runs over the indices of vectorA; vectorB[i] beyond
\* the end of vectorB is undefined and turns the sum into NaN, components
\* of vectorB beyond the end of vectorA are never read.
VectorDistance(vectorA, vectorB) ==
    MathSqrt(Hypot2([i \in Keys(vectorA) |->
                        Sub(vectorA[i], At(vectorB, i))]))

\* The arguments of the calls vectorDistance(a, b), (b, a), (b, c), (a, c).
InitDistance ==
    vdist \in [pc : {"call"}, a : Vectors, b : Vectors, c : Vectors,
               ab : {DoubleNaN}, ba : {DoubleNaN}, bc : {DoubleNaN},
               ac : {DoubleNaN}]

\* The four calls, each returning its double.
Measure ==
    /\ vdist.pc = "call"
    /\ vdist' = [vdist EXCEPT !.pc = "returned",
                              !.ab = VectorDistance(vdist.a, vdist.b),
                              !.ba = VectorDistance(vdist.b, vdist.a),
                              !.bc = VectorDistance(vdist.b, vdist.c),
                              !.ac = VectorDistance(vdist.a, vdist.c)]

\* No vectorDistance call is in progress.
DistanceIdle ==
    vdist = [pc |-> "idle", a |-> << >>, b |-> << >>, c |-> << >>,
             ab |-> DoubleNaN, ba |-> DoubleNaN, bc |-> DoubleNaN,
             ac |-> DoubleNaN]

\* --------------------------------------------------------- vectorAngle
\* a * b on numbers.
Mul(a, b) == IF IsNaN(a) \/ IsNaN(b) THEN NaN ELSE a * b

RECURSIVE DotUpTo(_, _, _)
\* Line 45: the reduce acc + n * vectorB[i] over the first n indices of
\* vectorA; vectorB[i] beyond the end of vectorB is undefined.
DotUpTo(vectorA, vectorB, n) ==
    IF n = 0 THEN 0
    ELSE Add(DotUpTo(vectorA, vectorB, n - 1),
             Mul(vectorA[n], At(vectorB, n)))

\* The NaN that Math.acos returns.
AngleNaN == [nan |-> TRUE, dot |-> 0, sqA |-> 0, sqB |-> 0]

\* Lines 42-46.  mA and mB are the square roots of sqA and sqB.  The
\* quotient is NaN when the dot product is NaN and when mA * mB is 0 (0 / 0;
\* a nonzero dot product over 0 would be an infinity, whose Math.acos is NaN
\* as well).  Any other result is kept as the exact quantities of
\* Math.acos(dot / Math.sqrt(sqA * sqB)).
VectorAngle(vectorA, vectorB) ==
    LET sqA == Hypot2(vectorA)
        sqB == Hypot2(vectorB)
        dot == DotUpTo(vectorA, vectorB, Len(vectorA))
    IN  IF IsNaN(dot) \/ sqA * sqB = 0 THEN AngleNaN
        ELSE [nan |-> FALSE, dot |-> dot, sqA |-> sqA, sqB |-> sqB]

\* The arguments of a call vectorAngle(a, b).
InitAngle ==
    vangle \in [pc : {"call"}, a : Vectors, b : Vectors, result : {AngleNaN}]

\* Lines 42-46: the whole call.
Angle ==
    /\ vangle.pc = "call"
    /\ vangle' = [vangle EXCEPT !.pc = "returned",
                                !.result = VectorAngle(vangle.a, vangle.b)]

\* No vectorAngle call is in progress.
AngleIdle ==
    vangle = [pc |-> "idle", a |-> << >>, b |-> << >>, result |-> AngleNaN]

\* --------------------------------------------------- standardDeviation
\* The numbers the arrays handed to standardDeviation are built from.
ArrValues == {0, 1, 4}

RECURSIVE SumUpTo(_, _)
\* arr.reduce((acc, val) => acc + val, 0) over the first n entries.
SumUpTo(arr, n) == IF n = 0 THEN 0 ELSE SumUpTo(arr, n - 1) + arr[n]

RECURSIVE SquaredValues(_, _)
\* SquaredDeviations with 0 in the place of the mean.
SquaredValues(arr, n) ==
    IF n = 0 THEN 0
    ELSE SquaredValues(arr, n - 1) + (Len(arr) * arr[n]) * (Len(arr) * arr[n])

RECURSIVE SquaredDeviations(_, _)
\* Lines 160-164: the sum of (val - mean) ** 2 over the first n entries,
\* with mean = sum / arr.length, times arr.length squared (so that it is
\* an integer): val - mean is (arr.length * val - sum) / arr.length.
SquaredDeviations(arr, n) ==
    IF n = 0 THEN 0
    ELSE LET dev == Len(arr) * arr[n] - SumUpTo(arr, Len(arr))
         IN  SquaredDeviations(arr, n - 1) + dev * dev

\* Line 159: the default parameter usePopulation = true.  The argument is
\* "omitted", "true" or "false".
UsePopulation(arg) == IF arg = "omitted" THEN "true" ELSE arg

\* Divisor with the sample divisor whatever usePopulation is.
DivisorSample(n, usePopulation) == n - 1

\* Line 165: arr.length - (usePopulation ? 0 : 1).
Divisor(n, usePopulation) == n - (IF usePopulation = "true" THEN 0 ELSE 1)

\* The NaN that Math.sqrt returns.
DeviationNaN == [nan |-> TRUE, num |-> 0, den |-> 1]

\* Lines 159-167.  The result is Math.sqrt(num / den), kept as num and den.
\* The divisor is 0 for the empty array (population) and for one element
\* (sample); the sum of squares is 0 in both cases, and 0 / 0 is NaN.  For
\* the empty array and the sample divisor the quotient is 0 / -1.
StandardDeviation(arr, arg) ==
    LET n == Len(arr)
        d == Divisor(n, UsePopulation(arg))
    IN  IF d = 0 THEN DeviationNaN
        ELSE IF n = 0 THEN [nan |-> FALSE, num |-> 0, den |-> d]
        ELSE [nan |-> FALSE, num |-> SquaredDeviations(arr, n),
              den |-> n * n * d]

\* The arguments of a call standardDeviation(arr) or
\* standardDeviation(arr, usePopulation).
InitDeviation ==
    stdev \in [pc : {"call"}, arr : SeqsOf(ArrValues, 0, MaxArr),
               usePopulation : {"omitted", "true", "false"},
               result : {DeviationNaN}]

\* Lines 159-167: the whole call.
Deviate ==
    /\ stdev.pc = "call"
    /\ stdev' = [stdev EXCEPT
                   !.pc = "returned",
                   !.result = StandardDeviation(stdev.arr, stdev.usePopulation)]

\* No standardDeviation call is in progress.
DeviationIdle ==
    stdev = [pc |-> "idle", arr |-> << >>, usePopulation |-> "omitted",
             result |-> DeviationNaN]

\* ------------------------------------------------------ specifications
\* No call of vectorDistance, vectorAngle or standardDeviation is in
\* progress.
MathIdle == DistanceIdle /\ AngleIdle /\ DeviationIdle

\* One call of kMeans.
Init == InitKMeans /\ KnnIdle /\ MathIdle

Next ==
    \/ AssignStep /\ UNCHANGED <<knnVars, mathVars>>
    \/ UpdateStep /\ UNCHANGED <<knnVars, mathVars>>
    \/ Return /\ UNCHANGED <<knnVars, mathVars>>

Spec == Init /\ [][Next]_vars

\* One call of kNearestNeighbors.
InitClassify == InitKNN /\ KMeansIdle /\ MathIdle

NextClassify == Classify /\ UNCHANGED <<kmVars, mathVars>>

SpecKNN == InitClassify /\ [][NextClassify]_vars

\* The calls of vectorDistance on three vectors.
InitMeasure ==
    InitDistance /\ AngleIdle /\ DeviationIdle /\ KMeansIdle /\ KnnIdle

NextMeasure == Measure /\ UNCHANGED <<kmVars, knnVars, vangle, stdev>>

SpecDistance == InitMeasure /\ [][NextMeasure]_vars

\* One call of vectorAngle.
InitVectorAngle ==
    InitAngle /\ DistanceIdle /\ DeviationIdle /\ KMeansIdle /\ KnnIdle

NextVectorAngle == Angle /\ UNCHANGED <<kmVars, knnVars, vdist, stdev>>

SpecAngle == InitVectorAngle /\ [][NextVectorAngle]_vars

\* One call of standardDeviation.
InitStandardDeviation ==
    InitDeviation /\ DistanceIdle /\ AngleIdle /\ KMeansIdle /\ KnnIdle

NextStandardDeviation == Deviate /\ UNCHANGED <<kmVars, knnVars, vdist, vangle>>

SpecDeviation == InitStandardDeviation /\ [][NextStandardDeviation]_vars

\* Every call of kMeans runs on: the loop is a sequential program.
FairSpec == Spec /\ WF_vars(Next)

\* The call has ended, by returning or by throwing.
Ended == pc \in {"returned", "TypeError"}

\* Every call of kMeans on the model's datasets ends.
Termination == <>Ended

\* ------------------------------------------------------------- claims
\* The preconditions of cluster: 1 <= k <= |dataset| and vectors of one
\* length.
ValidK(dat, kk) == 1 <= kk /\ kk <= Len(dat)

UniformDim(dat) == \A d \in DOMAIN dat : Len(dat[d]) = Len(dat[1])

ValidCall == ValidK(data, k) /\ UniformDim(data)

\* Some centroid has a NaN coordinate.
HasNaNCentroid(cents) ==
    \E c \in DOMAIN cents : \E i \in DOMAIN cents[c] : IsNaN(cents[c][i])

\* The vectors of dat are pairwise distinct.
Distinct(dat) == \A d, e \in DOMAIN dat : d # e => dat[d] # dat[e]

\* C1: for a dataset and 1 <= k <= |dataset|, the assignment kMeans returns
\* has one entry per dataset index and every entry is a cluster index in
\* 0 .. k-1, duplicates in the dataset included.
C1_AssignmentInRange ==
    (pc = "returned" /\ ValidCall) =>
        /\ Len(classes) = Len(data)
        /\ \A d \in DOMAIN classes : classes[d] \in 0..(k - 1)

\* C3: on a valid call no assignment step is executed against a centroid
\* whose coordinates are NaN: whenever the loop is about to run the
\* assignment step, every centroid coordinate is a number.
C3_NoAssignAgainstNaN ==
    (pc = "while" /\ itr /\ ValidCall) => ~HasNaNCentroid(centroids)

\* C7: for pairwise distinct vectors and k = |dataset|, kMeans returns
\* 0, 1, ..., |dataset|-1: each point in its own cluster, also for points
\* less than 0.005 apart.
C7_SingletonClusters ==
    (pc = "returned" /\ ValidCall /\ k = Len(data) /\ Distinct(data)) =>
        classes = [d \in 1..Len(data) |-> d - 1]

\* C8: when kMeans returns, one more assignment step against the centroids
\* held at that moment reproduces the returned assignment.
C8_AssignmentIdempotent ==
    pc = "returned" => AssignAll(data, centroids, k) = classes

\* C8 witness: a valid call returned after at least three assignment steps
\* with numeric centroids and points in two different clusters.
C8_Witness ==
    /\ pc = "returned"
    /\ ValidCall
    /\ iters >= 3
    /\ ~HasNaNCentroid(centroids)
    /\ \E d, e \in DOMAIN classes : classes[d] # classes[e]

\* C9: kMeans called with k < 1, k > |dataset| or vectors of unequal length
\* fails with InvalidParameter: it neither returns an assignment nor throws
\* an untyped runtime error.
C9_InvalidParameterRejected ==
    ~ValidCall => pc \notin {"returned", "TypeError"}

\* The labels of the k nearest neighbours of the call in progress, in
\* ascending-distance order.
Neighbours == KNearest(train, labels, point, kn)

\* The number of entries of ks[1 .. n] that carry label.
CountUpTo(ks, label, n) ==
    Cardinality({ j \in 1..n : ks[j].label = label })

\* The highest occurrence count of a label among ks.
MaxTally(ks) ==
    CHOOSE m \in 0..Len(ks) :
        /\ \A j \in DOMAIN ks : CountUpTo(ks, ks[j].label, Len(ks)) <= m
        /\ \E j \in DOMAIN ks : CountUpTo(ks, ks[j].label, Len(ks)) = m

\* The labels whose occurrence count among ks is the highest.
TopLabels(ks) ==
    { ks[j].label : j \in { h \in DOMAIN ks :
          CountUpTo(ks, ks[h].label, Len(ks)) = MaxTally(ks) } }

\* Scanning ks in order, the label that is the first to reach the highest
\* count.
FirstToReachMax(ks) ==
    ks[CHOOSE j \in DOMAIN ks :
          /\ CountUpTo(ks, ks[j].label, j) = MaxTally(ks)
          /\ \A h \in DOMAIN ks :
                h < j => CountUpTo(ks, ks[h].label, h) # MaxTally(ks)].label

\* The precondition of classify on k.
ValidKn == 1 <= kn /\ kn <= Len(train)

\* C4: for 1 <= k <= |trainingSet|, kNearestNeighbors returns a label with
\* the highest occurrence count among the k nearest training points, for
\* numeric labels as for string labels.
C4_MajorityLabel ==
    (kpc = "returned" /\ ValidKn) => topClass \in TopLabels(Neighbours)

\* C5: when several labels share the highest tally among the k nearest
\* neighbours, the label returned is the first, in ascending-distance
\* order, to reach that tally.
C5_FirstToReachMaxWins ==
    (kpc = "returned" /\ ValidKn /\ Cardinality(TopLabels(Neighbours)) > 1)
        => topClass = FirstToReachMax(Neighbours)

\* The 1-based index of the training point at minimum distance from the
\* query, the lowest such index when several are equidistant.
NearestIndex(trn, pt) ==
    CHOOSE i \in DOMAIN trn :
        /\ \A j \in DOMAIN trn : PointDist2(pt, trn[i]) <= PointDist2(pt, trn[j])
        /\ \A j \in DOMAIN trn :
              j < i => PointDist2(pt, trn[i]) < PointDist2(pt, trn[j])

\* C6: with k = 1 and a non-empty training set, kNearestNeighbors returns
\* labels[i] for i the index of the training point nearest to the query,
\* the lowest index among equidistant ones.
C6_NearestLabel ==
    (kpc # "call" /\ kn = 1 /\ Len(train) >= 1) =>
        /\ kpc = "returned"
        /\ topClass = labels[NearestIndex(train, point)]

\* C6 witness: a call with k = 1 returned where two different training
\* points with different labels are both at the minimum distance from the
\* query.
C6_Witness ==
    /\ kpc = "returned"
    /\ kn = 1
    /\ \E i, j \in DOMAIN train :
          /\ i < j
          /\ i = NearestIndex(train, point)
          /\ train[i] # train[j]
          /\ PointDist2(point, train[j]) = PointDist2(point, train[i])
          /\ labels[i] # labels[j]

\* C10: kNearestNeighbors called with k < 1 or k > |trainingSet| fails with
\* InvalidParameter: it neither returns a label nor throws an untyped
\* runtime error.
C10_InvalidKRejected ==
    ~ValidKn => kpc \notin {"returned", "TypeError"}

\* ------------------------------------------- claims on vectorDistance
\* The calls of vectorDistance have returned.
Measured == vdist.pc = "returned"

\* a, b and c have one dimension.
EqualDimension ==
    Len(vdist.a) = Len(vdist.b) /\ Len(vdist.b) = Len(vdist.c)

\* C11: vectorDistance called with two vectors of different lengths fails
\* with a DimensionMismatch error, whichever argument is the longer; it
\* never returns a number or NaN for such inputs.
C11_DimensionMismatchRejected ==
    (vdist.pc # "call" /\ Len(vdist.a) # Len(vdist.b))
        => vdist.pc = "DimensionMismatch"

\* C17: vectorDistance(a, b) is 0 if and only if a and b have the same
\* length and the same components; in particular it is not 0 when b is a
\* proper extension of a.
C17_ZeroIffEqual ==
    Measured => (IsZero(vdist.ab) <=> vdist.a = vdist.b)

\* C18: vectorDistance(a, b) equals vectorDistance(b, a) for all vectors a
\* and b.
C18_Symmetric ==
    Measured => (~vdist.ab.nan /\ ~vdist.ba.nan /\ vdist.ab = vdist.ba)

\* C19 as stated: for all vectors a, b, c of equal dimension,
\* vectorDistance(a, c) <= vectorDistance(a, b) + vectorDistance(b, c).
C19_TriangleInequality ==
    (Measured /\ EqualDimension)
        => DoubleLeq(vdist.ac, DoubleAdd(vdist.ab, vdist.bc))

\* C19 as amended: for all vectors a, b, c of equal dimension and integer
\* coordinates, vectorDistance(a, c) exceeds the computed sum
\* vectorDistance(a, b) + vectorDistance(b, c) by at most three units in the
\* last place of that sum.
C19_TriangleUpToRounding ==
    (Measured /\ EqualDimension)
        => DoubleLeq(vdist.ac, PlusUlps(DoubleAdd(vdist.ab, vdist.bc), 3))

\* Three different vectors of equal dimension whose computed distances
\* break the inequality by a rounding step.
C19_Witness ==
    /\ Measured
    /\ EqualDimension
    /\ vdist.a # vdist.b
    /\ vdist.b # vdist.c
    /\ ~vdist.ac.nan
    /\ ~DoubleLeq(vdist.ac, DoubleAdd(vdist.ab, vdist.bc))

\* --------------------------------------------- claims on vectorAngle
\* C12: vectorAngle called with at least one zero-magnitude vector fails
\* with a DegenerateVector error and does not return NaN.
C12_DegenerateVectorRejected ==
    (vangle.pc # "call" /\ (Hypot2(vangle.a) = 0 \/ Hypot2(vangle.b) = 0))
        => vangle.pc = "DegenerateVector"

\* --------------------------------------- claims on standardDeviation
RECURSIVE SumOfSquares(_, _)
\* The sum of the squares of arr[1 .. n].
SumOfSquares(arr, n) ==
    IF n = 0 THEN 0 ELSE SumOfSquares(arr, n - 1) + arr[n] * arr[n]

\* n times the sum of the squared deviations of arr from its arithmetic
\* mean, n the length of arr: n * (sum of squares) - (sum) squared.
ScaledDeviations(arr) ==
    Len(arr) * SumOfSquares(arr, Len(arr))
        - SumUpTo(arr, Len(arr)) * SumUpTo(arr, Len(arr))

\* result is the square root of (the sum of the squared deviations of arr
\* from its mean) / d, for d > 0 and arr not empty.
IsDeviationOver(result, arr, d) ==
    /\ ~result.nan
    /\ result.den > 0
    /\ result.num * (Len(arr) * d) = ScaledDeviations(arr) * result.den

\* The call of standardDeviation has returned.
Deviated == stdev.pc = "returned"

\* C13: standardDeviation fails with an InsufficientData error when the
\* array is empty, and when usePopulation is false and the array has
\* exactly one element; in neither case does it return a value.
C13_InsufficientDataRejected ==
    (/\ stdev.pc # "call"
     /\ \/ Len(stdev.arr) = 0
        \/ stdev.usePopulation = "false" /\ Len(stdev.arr) = 1)
        => stdev.pc = "InsufficientData"

\* C14: standardDeviation called with the array only (usePopulation
\* omitted) returns the sample standard deviation: the sum of squared
\* deviations is divided by n - 1.
C14_DefaultIsSample ==
    (Deviated /\ stdev.usePopulation = "omitted" /\ Len(stdev.arr) >= 2)
        => IsDeviationOver(stdev.result, stdev.arr, Len(stdev.arr) - 1)

\* C15: standardDeviation(arr, usePopulation) returns the square root of
\* the sum of squared deviations from the mean divided by n when
\* usePopulation is true and by n - 1 when usePopulation is false
\* (wherever that divisor is positive).
C15_DeviationFormula ==
    /\ (Deviated /\ stdev.usePopulation = "true" /\ Len(stdev.arr) >= 1)
           => IsDeviationOver(stdev.result, stdev.arr, Len(stdev.arr))
    /\ (Deviated /\ stdev.usePopulation = "false" /\ Len(stdev.arr) >= 2)
           => IsDeviationOver(stdev.result, stdev.arr, Len(stdev.arr) - 1)

\* A sample deviation of three numbers that are not all equal has been
\* returned.
C15_Witness ==
    /\ Deviated
    /\ stdev.usePopulation = "false"
    /\ Len(stdev.arr) = 3
    /\ ~stdev.result.nan
    /\ stdev.result.num > 0

\* C16: standardDeviation([x], true) returns 0 for every x.
C16_SingleElementIsZero ==
    (Deviated /\ stdev.usePopulation = "true" /\ Len(stdev.arr) = 1)
        => (~stdev.result.nan /\ stdev.result.num = 0)

\* The population deviation of one nonzero number has been returned.
C16_Witness ==
    /\ Deviated
    /\ stdev.usePopulation = "true"
    /\ Len(stdev.arr) = 1
    /\ stdev.arr[1] # 0

\* --------------------------------- claims on kNearestNeighbors' frame
\* C20: kNearestNeighbors has no side effects: after the call the
\* training set (order and contents), the labels and the query point are
\* as before the call; the distance sort does not reorder the caller's
\* arrays.
C20_NoSideEffects ==
    [][kpc = "call" =>
           (train' = train /\ labels' = labels /\ point' = point)]_vars

\* A call has ended whose distance sort changed the order of the entries.
C20_Witness ==
    /\ kpc \in {"returned", "TypeError"}
    /\ Len(train) >= 2
    /\ SortByDist(Entries(train, labels, point))
           # Entries(train, labels, point)

\* ---------------------------------------------- claims on kMeans, II
\* C21: kMeans leaves its input unchanged: no step writes into data or
\* into any of its vectors, although the initial centroids are the first
\* k vectors themselves.
C21_DatasetUnchanged == [][data' = data]_vars

\* A valid call has returned after update steps that moved the centroids
\* away from the seeds.
C21_Witness ==
    /\ pc = "returned"
    /\ ValidCall
    /\ iters >= 2
    /\ centroids # Slice0(data, k)

\* The locals <<centroids, classes, itr, pc>> one step after the present
\* state, computed from the present state alone.
LocalsAfterStep ==
    IF pc = "while" /\ itr
    THEN IF AssignThrows(data, centroids, k)
         THEN <<centroids, classes, FALSE, "TypeError">>
         ELSE LET new == AssignAll(data, centroids, k)
              IN  <<centroids, new, Changed(classes, new), "update">>
    ELSE IF pc = "while" THEN <<centroids, classes, itr, "returned">>
    ELSE IF pc = "update"
    THEN IF UpdateThrows(data, k)
         THEN <<centroids, classes, itr, "TypeError">>
         ELSE <<UpdateAll(data, classes, centroids, k), classes, itr, "while">>
    ELSE <<centroids, classes, itr, pc>>

\* The locals of a run of kMeans at its start are those of lines 61-65.
SeededFromData ==
    (pc = "while" /\ iters = 0)
        => /\ centroids = Slice0(data, k)
           /\ classes = [d \in 1..Len(data) |-> -1]
           /\ itr

Example == << <<0, 0>>, <<0, 1000>>, <<1000, 3000>>, <<2000, 0>> >>

\* C23: kMeans([[0, 0], [0, 1], [1, 3], [2, 0]], 2) ends by returning
\* [0, 1, 1, 0]: seeded with [0, 0] and [0, 1], the first assignment step
\* gives [0, 1, 1, 0], the centroids become [1, 0] and [0.5, 2], and the
\* second assignment step changes nothing, so that there is no third.
C23_DocumentedExample ==
    (data = Example /\ k = 2) =>
        /\ pc # "TypeError"
        /\ iters <= 2
        /\ iters = 0 => centroids = << <<0, 0>>, <<0, 1000>> >>
        /\ iters = 1 => (classes = <<0, 1, 1, 0>> /\ itr)
        /\ (iters = 1 /\ pc = "while")
               => centroids = << <<1000, 0>>, <<500, 2000>> >>
        /\ iters = 2 => (classes = <<0, 1, 1, 0>> /\ ~itr)
        /\ pc = "returned" => (classes = <<0, 1, 1, 0>> /\ iters = 2)

\* The call on the documented example has returned.
C23_Witness == pc = "returned" /\ data = Example /\ k = 2

\* C24: in every assignment step of kMeans each point is assigned to a
\* centroid at minimum Euclidean distance from it, the one of lowest index
\* when several centroids are at that minimum distance.
C24_NearestLowestIndex ==
    (pc = "update" /\ ValidCall) =>
        \A d \in DOMAIN data :
            LET row == DistRow(data[d], centroids, k, data[1])
                m == classes[d] + 1
            IN  /\ m \in 1..k
                /\ \A c \in 1..k : ~IsNaN(row[c]) /\ row[m] <= row[c]
                /\ \A c \in 1..(m - 1) : row[m] < row[c]

\* C25: after every update step of kMeans each centroid with at least one
\* assigned point equals exactly the componentwise arithmetic mean of the
\* points assigned to it: the sum of the members' coordinates divided by
\* their number, not rounded.
C25_ExactMean ==
    (pc = "while" /\ iters >= 1 /\ ValidCall) =>
        \A c \in 1..k :
            SizeOf(classes, c - 1) > 0 =>
                \A i \in Keys(data[1]) :
                    centroids[c][i] * SizeOf(classes, c - 1)
                        = SumMembers(data, classes, c - 1, i, Len(data))

\* C26: kMeans stops exactly at the first iteration whose assignment step
\* changes no point's cluster: the flag itr that the loop tests says
\* whether the step changed some assignment (the first step, against the
\* initial -1, always does), the update step leaves it alone, the call
\* never returns while it is set and never starts an iteration when it is
\* not.
C26_StopsAtFirstUnchanged ==
    [][ValidCall =>
          /\ (pc = "while" /\ pc' = "update") => (itr' <=> classes' # classes)
          /\ (pc = "while" /\ pc' = "update" /\ iters = 0) => itr'
          /\ pc = "update" => (itr' = itr /\ classes' = classes)
          /\ (pc = "while" /\ itr) => pc' # "returned"
          /\ (pc = "while" /\ ~itr) => pc' # "update"]_vars

\* A valid call has returned after exactly three iterations: two that
\* changed assignments and one that did not.
C26_Witness ==
    /\ pc = "returned"
    /\ ValidCall
    /\ iters = 3
    /\ ~HasNaNCentroid(centroids)

\* C27: at the first assignment step of kMeans centroid c is data[c] for
\* every c in [0, k), the first k vectors in dataset order; so for pairwise
\* distinct seeds the first step assigns point c to cluster c.
C27_SeededInOrder ==
    /\ (pc = "while" /\ iters = 0 /\ ValidK(data, k))
           => /\ Len(centroids) = k
              /\ \A c \in 1..k : centroids[c] = data[c]
    /\ (pc = "update" /\ iters = 1 /\ ValidCall
            /\ Distinct(SubSeq(data, 1, k)))
           => \A c \in 1..k : classes[c] = c - 1

\* The first assignment step has run on distinct seeds that are fewer than
\* the points and not the last vectors of the dataset.
C27_Witness ==
    /\ pc = "update"
    /\ iters = 1
    /\ ValidCall
    /\ 2 <= k
    /\ k < Len(data)
    /\ Distinct(SubSeq(data, 1, k))
    /\ data[Len(data)] \notin { data[c] : c \in 1..k }

\* C29: all through a run of kMeans on vectors of one length n there are
\* exactly k centroids and each has exactly n components, at seeding and
\* after every update step.
C29_CentroidShape ==
    (ValidCall /\ pc \in {"while", "update", "returned"}) =>
        /\ Len(centroids) = k
        /\ \A c \in 1..k : Len(centroids[c]) = Len(data[1])

\* An update step of a valid call has run with a cluster left empty.
C29_Witness ==
    /\ ValidCall
    /\ pc = "while"
    /\ iters >= 1
    /\ \E c \in 0..(k - 1) : SizeOf(classes, c) = 0

\* --------------------------------- claims on kNearestNeighbors, II
\* The place of entry i of es among the entries in ascending dist, entries
\* of equal dist in index order.
RankOf(es, i) ==
    1 + Cardinality({ j \in DOMAIN es :
                        \/ es[j].dist < es[i].dist
                        \/ es[j].dist = es[i].dist /\ j < i })

\* C28: the k neighbours that kNearestNeighbors tallies are the first k
\* training points in ascending distance from the query, training points
\* at equal distance in their index order.
C28_StableNeighbours ==
    (kpc # "call" /\ ValidKn) =>
        LET es == Entries(train, labels, point)
            ks == Neighbours
        IN  /\ Len(ks) = kn
            /\ \A i \in DOMAIN train :
                  /\ es[i] = [dist |-> PointDist2(point, train[i]),
                              label |-> labels[i]]
                  /\ RankOf(es, i) <= kn => ks[RankOf(es, i)] = es[i]

\* A call has returned where k cuts between two equidistant training
\* points with different labels.
C28_Witness ==
    /\ kpc = "returned"
    /\ ValidKn
    /\ \E i, j \in DOMAIN train :
          /\ i < j
          /\ PointDist2(point, train[i]) = PointDist2(point, train[j])
          /\ labels[i] # labels[j]
          /\ RankOf(Entries(train, labels, point), i) = kn

\* The labels lbs, each converted to a string.
AsStrings(lbs) == [i \in DOMAIN lbs |-> Label("string", lbs[i].key)]

\* C30: the result of kNearestNeighbors does not depend on how the labels
\* are represented: the call with numeric labels and the call with the
\* same labels as strings return corresponding labels.
C30_LabelRepresentation ==
    (kpc = "returned" /\ ValidKn
         /\ \A i \in DOMAIN labels : labels[i].kind = "number") =>
        LET ks == KNearest(train, AsStrings(labels), point, kn)
        IN  Tally(ks, Len(ks)).topClass = Label("string", topClass.key)

====
